---- MODULE Spec2Model ----
(***************************************************************************)
(* Model of whisper-server/main.py: the lifespan of the process (engine    *)
(* load at boot, unload at shutdown), GET /health, and the handler of      *)
(* POST /v1/audio/transcriptions, statement by statement.                  *)
(*                                                                         *)
(* The handler is a coroutine on a single-threaded event loop.  Its only   *)
(* suspension point is `await file.read()` (line 141); everything from    *)
(* line 142 to the end of the finally block is synchronous, so no other    *)
(* coroutine runs while a request is between those lines.                  *)
(*                                                                         *)
(* Requests enter the handler until the lifespan's shutdown part has run;   *)
(* a request suspended on its read when shutdown runs resumes afterwards.  *)
(* os.remove may succeed, or raise with the file already gone, or raise    *)
(* with the file still there.                                             *)
(*                                                                         *)
(* Strings that are computed on (segment texts, the transcription text)    *)
(* are sequences of one-character strings.  Wall-clock values are not      *)
(* modelled; the points where the clock is read are.                       *)
(***************************************************************************)
EXTENDS Integers, Sequences, FiniteSets, TLC

\* ---- bounds ----
NReq == 2          \* request slots that can be in flight together
MaxRequests == 2   \* requests accepted in one run of the process
MaxSegs == 2       \* segments the engine yields for one file

\* ---- program constants ----
MaxBytes == 100 * 1024 * 1024
MinBytes == 1024

None == "None"
Engine == "WhisperModel"

Reqs == 1..NReq

\* payload sizes the client may upload: below, at and above each limit
Sizes == {MinBytes - 1, MinBytes, MinBytes + 1, MaxBytes, MaxBytes + 1}

\* ---- strings ----
Hello == <<"H", "e", "l", "l", "o">>
SpWorld == <<" ", "w", "o", "r", "l", "d">>
\* texts a segment may carry: with and without blanks at its edges
SegTexts == {Hello, SpWorld, <<" ">>}

IsSpace(c) == c \in {" ", "\t", "\n", "\r"}

\* str.join with separator " "
RECURSIVE JoinSpace(_)
JoinSpace(parts) ==
    IF parts = <<>> THEN <<>>
    ELSE IF Len(parts) = 1 THEN parts[1]
    ELSE parts[1] \o <<" ">> \o JoinSpace(Tail(parts))

RECURSIVE LStrip(_)
LStrip(s) == IF s # <<>> /\ IsSpace(Head(s)) THEN LStrip(Tail(s)) ELSE s

RECURSIVE RStrip(_)
RStrip(s) ==
    IF s # <<>> /\ IsSpace(s[Len(s)]) THEN RStrip(SubSeq(s, 1, Len(s) - 1)) ELSE s

\* variant of Strip that leaves the blanks at the edges
StripNone(s) == s
\* str.strip()
Strip(s) == RStrip(LStrip(s))

\* ---- responses ----
NoResp == [status |-> 0, body |-> "none", text |-> <<>>, msg |-> <<>>]

\* FastAPI's answer to `raise HTTPException(status_code, detail)`
HTTPException(code, detail) ==
    [status |-> code, body |-> "detail", text |-> <<>>, msg |-> detail]

\* the handler's return value
TranscriptionResponse(t) ==
    [status |-> 200, body |-> "result", text |-> t, msg |-> <<>>]

\* the catch-all handler: any exception that is not an HTTPException
global_exception_handler(exc) ==
    [status |-> 500, body |-> "error", text |-> <<>>, msg |-> <<exc>>]

NotLoadedDetail == <<"Whisper model not loaded. Please wait for server to initialize.">>
TooLargeDetail == <<"File too large (max 100MB)">>
TooSmallDetail == <<"File too small (may be empty)">>
FailedDetail(e) == <<"Transcription failed: ", e>>

\* variant of ValidateSize that rejects the two limits themselves
ValidateSizeStrict(n) ==
    IF n >= MaxBytes THEN "too_large"
    ELSE IF n <= MinBytes THEN "too_small"
    ELSE "ok"
\* the two size checks, in the order of the code
ValidateSize(n) ==
    IF n > MaxBytes THEN "too_large"
    ELSE IF n < MinBytes THEN "too_small"
    ELSE "ok"

\* ---- state ----
VARIABLES
    phase,          \* position of lifespan: "boot", "serving", "stopped"
    whisper_model,  \* the global engine handle, None or Engine
    loadResult,     \* "pending", "ok", "failed": how the load at boot went
    loadAttempts,   \* number of times WhisperModel(...) was called
    health,         \* the last answer of GET /health, or NoHealth
    req,            \* per request slot: the handler's locals and position
    accepted,       \* requests that entered the handler so far
    orphans,        \* temp files of requests that have left the server
    refusals        \* os.remove calls that failed with the file still there

vars == <<phase, whisper_model, loadResult, loadAttempts, health, req,
          accepted, orphans, refusals>>

NoHealth == [status |-> "none", ready |-> FALSE]

Order == <<"written", "stamped", "invoked", "drained", "duration", "deleted">>

FreshReq ==
    [pc |-> "idle",
     upload |-> 0,               \* size of the uploaded file
     content |-> 0,              \* len(content), once read
     readyAtEntry |-> FALSE,     \* what the check of line 134 saw
     exists |-> FALSE,           \* os.path.exists(temp_filename)
     created |-> FALSE,          \* open() created temp_filename
     invoked |-> 0,              \* calls of whisper_model.transcribe
     absentAtInvoke |-> FALSE,   \* line 158 found whisper_model None
     yielded |-> <<>>,           \* texts the engine's generator produced
     exhausted |-> FALSE,        \* the generator reached its end
     segments |-> <<>>,          \* texts collected by the comprehension
     transcription_text |-> <<>>,
     exc |-> "none",             \* the exception caught at line 181
     pending |-> NoResp,         \* outcome of the try/except, before finally
     removed |-> "none",         \* how the finally block went
     resp |-> NoResp,            \* the answer sent to the client
     trace |-> <<>>]             \* the steps taken, in order

\* positions at which the handler holds the event loop
SyncPcs == {"write", "stamp", "invoke", "drain", "duration", "return",
            "except", "finally", "done"}

LoopFree == \A r \in Reqs : req[r].pc \notin SyncPcs

Upd(r, new) == req' = [req EXCEPT ![r] = new]

Init ==
    /\ phase = "boot"
    /\ whisper_model = None
    /\ loadResult = "pending"
    /\ loadAttempts = 0
    /\ health = NoHealth
    /\ req = [r \in Reqs |-> FreshReq]
    /\ accepted = 0
    /\ orphans = 0
    /\ refusals = 0

\* ---- lifespan ----
\* variant of LoadModel in which a failed load still leaves a handle
LoadModelAlways(ok) == Engine
\* WhisperModel(...) inside try/except: the handle, or the global left as is
LoadModel(ok) == IF ok THEN Engine ELSE whisper_model

\* lines 52-63: the load is attempted once, then the server serves
lifespan_startup ==
    /\ phase = "boot"
    /\ LoopFree
    /\ \E ok \in BOOLEAN :
        /\ whisper_model' = LoadModel(ok)
        /\ loadResult' = IF ok THEN "ok" ELSE "failed"
    /\ loadAttempts' = loadAttempts + 1
    /\ phase' = "serving"
    /\ UNCHANGED <<health, req, accepted, orphans, refusals>>

\* lines 65-67
lifespan_shutdown ==
    /\ phase = "serving"
    /\ LoopFree
    /\ whisper_model' = None
    /\ phase' = "stopped"
    /\ UNCHANGED <<loadResult, loadAttempts, health, req, accepted, orphans, refusals>>

\* lines 87-94
health_check ==
    /\ phase \in {"boot", "serving"}
    /\ LoopFree
    /\ health' = [status |-> "ok", ready |-> (whisper_model # None)]
    /\ UNCHANGED <<phase, whisper_model, loadResult, loadAttempts, req,
                   accepted, orphans, refusals>>

\* ---- POST /v1/audio/transcriptions ----
\* what the steps of the synchronous part of the handler leave alone
Frame == UNCHANGED <<phase, whisper_model, loadResult, loadAttempts, health,
                     accepted, orphans, refusals>>

\* variant of EngineAbsent: the readiness check left out
ReadinessCheckOff(m) == FALSE
\* line 134: `whisper_model is None`
EngineAbsent(m) == m = None

\* lines 134-141: the readiness check, then the handler suspends on the read.
\* A request comes with an upload of some size; the slot that holds it is the
\* first free one.
transcribe_begin(r) ==
    /\ req[r].pc = "idle"
    /\ \A q \in Reqs : q < r => req[q].pc # "idle"   \* slots are taken in order
    /\ phase \in {"boot", "serving"}
    /\ LoopFree
    /\ accepted < MaxRequests
    /\ accepted' = accepted + 1
    /\ \E n \in Sizes :
        IF EngineAbsent(whisper_model)
        THEN Upd(r, [req[r] EXCEPT !.pc = "done", !.upload = n,
                                   !.readyAtEntry = (whisper_model # None),
                                   !.resp = HTTPException(503, NotLoadedDetail)])
        ELSE Upd(r, [req[r] EXCEPT !.pc = "reading", !.upload = n,
                                   !.readyAtEntry = (whisper_model # None)])
    /\ UNCHANGED <<phase, whisper_model, loadResult, loadAttempts, health,
                   orphans, refusals>>

\* variant of transcribe_read that writes the temp file before the size checks
transcribe_read_write_first(r) ==
    /\ req[r].pc = "reading"
    /\ LoopFree
    /\ LET n == req[r].upload IN
        Upd(r, [req[r] EXCEPT
                  !.content = n, !.exists = TRUE, !.created = TRUE,
                  !.pc = IF ValidateSize(n) = "ok" THEN "stamp" ELSE "done",
                  !.resp = IF ValidateSize(n) = "too_large"
                              THEN HTTPException(400, TooLargeDetail)
                           ELSE IF ValidateSize(n) = "too_small"
                              THEN HTTPException(400, TooSmallDetail)
                           ELSE NoResp])
    /\ Frame
\* lines 141-149: the body arrives, its size is checked, the temp name is made
transcribe_read(r) ==
    /\ req[r].pc = "reading"
    /\ LoopFree
    /\ LET n == req[r].upload
           v == ValidateSize(n) IN
        IF v = "too_large"
        THEN Upd(r, [req[r] EXCEPT !.content = n, !.pc = "done",
                                   !.resp = HTTPException(400, TooLargeDetail)])
        ELSE IF v = "too_small"
        THEN Upd(r, [req[r] EXCEPT !.content = n, !.pc = "done",
                                   !.resp = HTTPException(400, TooSmallDetail)])
        ELSE Upd(r, [req[r] EXCEPT !.content = n, !.pc = "write"])
    /\ Frame

\* lines 152-153: open() may fail (no file), write() may fail (file left behind)
transcribe_write(r) ==
    /\ req[r].pc = "write"
    /\ \E o \in {"ok", "open", "write"} :
        IF o = "ok"
        THEN Upd(r, [req[r] EXCEPT !.exists = TRUE, !.created = TRUE,
                                   !.trace = Append(@, "written"),
                                   !.pc = "stamp"])
        ELSE IF o = "open"
        THEN Upd(r, [req[r] EXCEPT !.exc = "open", !.pc = "except"])
        ELSE Upd(r, [req[r] EXCEPT !.exists = TRUE, !.created = TRUE,
                                   !.exc = "write", !.pc = "except"])
    /\ Frame

\* line 155: start_time = time.time()
transcribe_stamp(r) ==
    /\ req[r].pc = "stamp"
    /\ Upd(r, [req[r] EXCEPT !.trace = Append(@, "stamped"), !.pc = "invoke"])
    /\ Frame

\* lines 158-166: the global is read again here; None has no transcribe
transcribe_invoke(r) ==
    /\ req[r].pc = "invoke"
    /\ IF whisper_model = None
       THEN Upd(r, [req[r] EXCEPT !.absentAtInvoke = TRUE,
                                  !.exc = "nonetype", !.pc = "except"])
       ELSE \E o \in {"ok", "raise"} :
              IF o = "ok"
              THEN Upd(r, [req[r] EXCEPT !.invoked = @ + 1,
                                         !.trace = Append(@, "invoked"),
                                         !.pc = "drain"])
              ELSE Upd(r, [req[r] EXCEPT !.invoked = @ + 1,
                                         !.trace = Append(@, "invoked"),
                                         !.exc = "engine", !.pc = "except"])
    /\ Frame

\* line 169, one turn of the comprehension: the generator yields a segment
transcribe_drain_next(r) ==
    /\ req[r].pc = "drain"
    /\ Len(req[r].yielded) < MaxSegs
    /\ \E t \in SegTexts :
        Upd(r, [req[r] EXCEPT !.yielded = Append(@, t),
                              !.segments = Append(@, t)])
    /\ Frame

\* line 169: the generator raises while it is consumed
transcribe_drain_raise(r) ==
    /\ req[r].pc = "drain"
    /\ Upd(r, [req[r] EXCEPT !.exc = "drain", !.pc = "except"])
    /\ Frame

\* variant of transcribe_drain_end that stops consuming before the generator ends
transcribe_drain_stop_early(r) ==
    /\ req[r].pc = "drain"
    /\ Upd(r, [req[r] EXCEPT
                 !.transcription_text = Strip(JoinSpace(req[r].segments)),
                 !.trace = Append(@, "drained"),
                 !.pc = "duration"])
    /\ Frame
\* line 169: the generator ends; the collected texts are joined and stripped
transcribe_drain_end(r) ==
    /\ req[r].pc = "drain"
    /\ Upd(r, [req[r] EXCEPT
                 !.exhausted = TRUE,
                 !.transcription_text = Strip(JoinSpace(req[r].segments)),
                 !.trace = Append(@, "drained"),
                 !.pc = "duration"])
    /\ Frame

\* lines 171-173: duration = time.time() - start_time
transcribe_duration(r) ==
    /\ req[r].pc = "duration"
    /\ Upd(r, [req[r] EXCEPT !.trace = Append(@, "duration"), !.pc = "return"])
    /\ Frame

\* lines 175-179: the return statement; the finally block runs before it takes effect
transcribe_return(r) ==
    /\ req[r].pc = "return"
    /\ Upd(r, [req[r] EXCEPT
                 !.pending = TranscriptionResponse(req[r].transcription_text),
                 !.pc = "finally"])
    /\ Frame

\* variant of transcribe_except that answers a failure with an empty result
transcribe_except_swallow(r) ==
    /\ req[r].pc = "except"
    /\ Upd(r, [req[r] EXCEPT !.pending = TranscriptionResponse(<<>>),
                             !.pc = "finally"])
    /\ Frame
\* lines 181-183: any Exception of the try block becomes an HTTPException 500
transcribe_except(r) ==
    /\ req[r].pc = "except"
    /\ Upd(r, [req[r] EXCEPT
                 !.pending = HTTPException(500, FailedDetail(req[r].exc)),
                 !.pc = "finally"])
    /\ Frame

\* variant of transcribe_finally without the delete
transcribe_finally_no_cleanup(r) ==
    /\ req[r].pc = "finally"
    /\ Upd(r, [req[r] EXCEPT !.removed = "skipped", !.resp = req[r].pending,
                             !.pc = "done"])
    /\ Frame
\* lines 185-188: os.remove is not guarded; what it raises leaves the handler
\* in place of the pending return value or HTTPException
transcribe_finally(r) ==
    /\ req[r].pc = "finally"
    /\ IF req[r].exists
       THEN \E o \in {"ok", "vanished", "refused"} :
              /\ refusals' = refusals + (IF o = "refused" THEN 1 ELSE 0)
              /\ Upd(r,
                   IF o = "ok"
                   THEN [req[r] EXCEPT
                           !.exists = FALSE, !.removed = "ok",
                           !.trace = Append(@, "deleted"),
                           !.resp = req[r].pending,
                           !.pc = "done"]
                   ELSE IF o = "vanished"
                   THEN [req[r] EXCEPT
                           !.exists = FALSE, !.removed = "vanished",
                           !.resp = global_exception_handler("FileNotFoundError"),
                           !.pc = "done"]
                   ELSE [req[r] EXCEPT
                           !.removed = "refused",
                           !.resp = global_exception_handler("PermissionError"),
                           !.pc = "done"])
       ELSE /\ Upd(r, [req[r] EXCEPT !.removed = "skipped",
                                     !.resp = req[r].pending, !.pc = "done"])
            /\ UNCHANGED refusals
    /\ UNCHANGED <<phase, whisper_model, loadResult, loadAttempts, health,
                   accepted, orphans>>

\* the answer is sent and the request's objects are dropped; its temp file,
\* if still on disk, stays there
retire(r) ==
    /\ req[r].pc = "done"
    /\ orphans' = orphans + (IF req[r].exists THEN 1 ELSE 0)
    /\ Upd(r, FreshReq)
    /\ UNCHANGED <<phase, whisper_model, loadResult, loadAttempts, health,
                   accepted, refusals>>

Next ==
    \/ lifespan_startup
    \/ lifespan_shutdown
    \/ health_check
    \/ \E r \in Reqs : transcribe_begin(r)
    \/ \E r \in Reqs : transcribe_read(r)
    \/ \E r \in Reqs : transcribe_write(r)
    \/ \E r \in Reqs : transcribe_stamp(r)
    \/ \E r \in Reqs : transcribe_invoke(r)
    \/ \E r \in Reqs : transcribe_drain_next(r)
    \/ \E r \in Reqs : transcribe_drain_raise(r)
    \/ \E r \in Reqs : transcribe_drain_end(r)
    \/ \E r \in Reqs : transcribe_duration(r)
    \/ \E r \in Reqs : transcribe_return(r)
    \/ \E r \in Reqs : transcribe_except(r)
    \/ \E r \in Reqs : transcribe_finally(r)
    \/ \E r \in Reqs : retire(r)

Spec == Init /\ [][Next]_vars

TypeOK ==
    /\ phase \in {"boot", "serving", "stopped"}
    /\ whisper_model \in {None, Engine}
    /\ orphans \in 0..MaxRequests
    /\ accepted \in 0..MaxRequests

\* ======================= properties =======================
Done(r) == req[r].pc = "done"
InRange(seq) == {seq[i] : i \in DOMAIN seq}
LeftOnDisk == {r \in Reqs : Done(r) /\ req[r].exists}

\* C1, as stated: once a request that created its temp file has returned, the
\* file is gone, and no file of an earlier request is still on disk.
C1_NoTempFileOutlivesRequest ==
    /\ orphans = 0
    /\ \A r \in Reqs : (Done(r) /\ req[r].created) => ~req[r].exists

\* C1, amended: once such a request has returned, its temp file is gone except
\* when the delete itself was refused; the files left on disk are exactly
\* those whose delete was refused.
C1_TempFileGoneUnlessDeleteRefused ==
    /\ \A r \in Reqs :
         (Done(r) /\ req[r].created) =>
            (req[r].exists <=> req[r].removed = "refused")
    /\ \A r \in Reqs : (Done(r) /\ ~req[r].created) => ~req[r].exists
    /\ orphans + Cardinality(LeftOnDisk) = refusals

C1_Witness ==
    \E r \in Reqs :
        /\ Done(r) /\ req[r].created /\ ~req[r].exists
        /\ req[r].removed = "ok" /\ req[r].exc = "drain"
        /\ req[r].resp.status = 500

\* C2: a request that enters the handler while no engine handle is loaded is
\* answered 503, whatever the size of its payload; it never gets a 400 and
\* its body is never read.
C2_NotReadyGives503 ==
    \A r \in Reqs :
        (req[r].pc # "idle" /\ ~req[r].readyAtEntry) =>
            /\ Done(r)
            /\ req[r].resp.status = 503
            /\ req[r].resp.body = "detail"
            /\ req[r].content = 0

C2_Witness ==
    \E r \in Reqs :
        /\ Done(r) /\ ~req[r].readyAtEntry
        /\ loadResult = "failed"
        /\ req[r].upload < MinBytes
        /\ req[r].resp.status = 503

\* the request got past `await file.read()` with the engine loaded at entry
Validated(r) == req[r].readyAtEntry /\ req[r].pc \notin {"idle", "reading"}
Rejected400(r, detail) ==
    Done(r) /\ req[r].resp = [status |-> 400, body |-> "detail",
                              text |-> <<>>, msg |-> detail]

\* C3, as stated: validation passes exactly for sizes strictly between 1024
\* and 104857600; 1024 and 104857600 themselves are rejected with 400.
C3_BoundariesRejected ==
    \A r \in Reqs :
        Validated(r) =>
            LET n == req[r].content IN
            /\ (1024 < n /\ n < 104857600) => req[r].resp.status # 400
            /\ n <= 1024 => Rejected400(r, TooSmallDetail)
            /\ n >= 104857600 => Rejected400(r, TooLargeDetail)

\* C3, amended: validation passes for every size from 1024 to 104857600,
\* both included; a size below 1024 gets 400 with the too-small message, a
\* size above 104857600 gets 400 with the too-large message.
C3_BoundariesAccepted ==
    \A r \in Reqs :
        Validated(r) =>
            LET n == req[r].content IN
            /\ n = req[r].upload
            /\ (1024 <= n /\ n <= 104857600) => req[r].resp.status # 400
            /\ n < 1024 => Rejected400(r, TooSmallDetail)
            /\ n > 104857600 => Rejected400(r, TooLargeDetail)

C3_Witness ==
    \E r \in Reqs :
        /\ Validated(r) /\ req[r].content = 104857600
        /\ req[r].resp.status = 200

\* a failure of the temp write, of the engine call or of the drain
PipelineFailed(r) == req[r].exc \in {"open", "write", "engine", "drain"}
Answered(r) ==
    /\ req[r].resp.status \in {200, 400, 500, 503}
    /\ req[r].resp.status = 200 => req[r].resp.body = "result"
    /\ req[r].resp.status # 200 => /\ req[r].resp.body \in {"detail", "error"}
                                   /\ req[r].resp.msg # <<>>

\* C4, as stated: a failure of the temp write, the engine call or the drain
\* is answered 500 with body {error: <message>} carrying the failure's
\* message; every request that has returned has a status and a JSON body.
C4_FailureIs500ErrorBody ==
    \A r \in Reqs :
        Done(r) =>
            /\ Answered(r)
            /\ PipelineFailed(r) =>
                 req[r].resp = [status |-> 500, body |-> "error",
                                text |-> <<>>, msg |-> <<req[r].exc>>]

\* C4, amended: such a failure is answered 500 with body
\* {detail: "Transcription failed: <message>"}; when the delete in the
\* finally block raises as well, the answer is the catch-all's 500
\* {error: <message of the delete failure>}.  Every request that has
\* returned has a status among 200, 400, 500, 503 and a JSON body.
C4_FailureIs500DetailBody ==
    \A r \in Reqs :
        Done(r) =>
            /\ Answered(r)
            /\ (PipelineFailed(r) \/ req[r].absentAtInvoke) =>
                 /\ req[r].resp.status = 500
                 /\ req[r].removed \in {"ok", "skipped"} =>
                      /\ req[r].resp.body = "detail"
                      /\ req[r].resp.msg = <<"Transcription failed: ", req[r].exc>>
                 /\ req[r].removed \in {"vanished", "refused"} =>
                      /\ req[r].resp.body = "error"
                      /\ req[r].resp.msg \in {<<"FileNotFoundError">>,
                                              <<"PermissionError">>}

C4_Witness ==
    \E r \in Reqs :
        /\ Done(r) /\ req[r].exc = "engine" /\ req[r].removed = "ok"
        /\ req[r].resp.status = 500 /\ req[r].resp.body = "detail"

\* ---- the text law, stated on positions rather than by recursion ----
RECURSIVE Offset(_, _)
\* number of characters before segment i in the space-separated concatenation
Offset(segs, i) == IF i = 1 THEN 0 ELSE Offset(segs, i - 1) + Len(segs[i - 1]) + 1
Total(segs) ==
    IF segs = <<>> THEN 0 ELSE Offset(segs, Len(segs)) + Len(segs[Len(segs)])
Joined(segs) ==
    [p \in 1..Total(segs) |->
        IF \E i \in DOMAIN segs : Offset(segs, i) < p /\ p <= Offset(segs, i) + Len(segs[i])
        THEN LET i == CHOOSE k \in DOMAIN segs :
                        Offset(segs, k) < p /\ p <= Offset(segs, k) + Len(segs[k])
             IN segs[i][p - Offset(segs, i)]
        ELSE " "]
Trimmed(j) ==
    LET inked == {p \in DOMAIN j : ~IsSpace(j[p])} IN
    IF inked = {} THEN <<>>
    ELSE LET lo == CHOOSE p \in inked : \A q \in inked : p <= q
             hi == CHOOSE p \in inked : \A q \in inked : q <= p
         IN [p \in 1..(hi - lo + 1) |-> j[lo + p - 1]]

HelloWorld1 == <<"H", "e", "l", "l", "o", " ", "w", "o", "r", "l", "d">>
HelloWorld2 == <<"H", "e", "l", "l", "o", " ", " ", "w", "o", "r", "l", "d">>

\* the handler reached its return statement with the generator drained
Returned(r) == req[r].pending.status = 200
TextLaw(r) ==
    /\ req[r].pending.body = "result"
    /\ req[r].pending.text = Trimmed(Joined(req[r].yielded))
    /\ req[r].yielded = <<>> => req[r].pending.text = <<>>

\* C5, as stated: the returned text is the yielded segment texts joined by a
\* single space and trimmed at the outer edges only; ["Hello", " world"]
\* gives "Hello world"; no segments give "" as a 200 result.
C5_HelloWorldOneSpace ==
    \A r \in Reqs :
        Returned(r) =>
            /\ TextLaw(r)
            /\ req[r].yielded = <<Hello, SpWorld>> => req[r].pending.text = HelloWorld1

\* C5, amended: the returned text is the yielded segment texts joined by a
\* single space and trimmed at the outer edges only, so ["Hello", " world"]
\* gives "Hello  world" with two spaces (the separator and the second
\* segment's own leading space); no segments give "" as a 200 result.
C5_JoinThenTrim ==
    \A r \in Reqs :
        /\ Returned(r) =>
            /\ TextLaw(r)
            /\ req[r].yielded = <<Hello, SpWorld>> => req[r].pending.text = HelloWorld2
        /\ (req[r].exhausted /\ req[r].pc \in {"finally", "done"}) => Returned(r)
        /\ (Done(r) /\ Returned(r) /\ req[r].removed \in {"ok", "skipped"}) =>
              req[r].resp = req[r].pending

C5_Witness ==
    \E r \in Reqs :
        /\ Done(r) /\ req[r].yielded = <<Hello, SpWorld>>
        /\ req[r].resp.status = 200 /\ req[r].resp.text = HelloWorld2

C5_WitnessEmpty ==
    \E r \in Reqs :
        /\ Done(r) /\ req[r].yielded = <<>> /\ req[r].exhausted
        /\ req[r].resp.status = 200 /\ req[r].resp.text = <<>>

C6_State ==
    /\ loadAttempts <= 1
    /\ phase # "boot" <=> loadAttempts = 1
    /\ loadResult = "failed" => whisper_model = None
    /\ phase = "boot" => whisper_model = None
    /\ (phase = "serving" /\ loadResult = "ok") => whisper_model # None
    /\ health.status = "ok" => (health.ready => loadResult = "ok")
C6_Step ==
    /\ (whisper_model = None /\ whisper_model' # None) =>
          (phase = "boot" /\ phase' = "serving" /\ loadResult' = "ok")
    /\ (whisper_model # None /\ whisper_model' = None) => phase' = "stopped"
    /\ loadAttempts' # loadAttempts => (phase = "boot" /\ phase' # "boot")
    /\ health' # health =>
          health'.ready = (phase = "serving" /\ loadResult = "ok")

\* C6: the ready field of /health is false until a successful load and true
\* after it; the handle goes from absent to present at most once, by the one
\* load attempted at boot; while the server runs it never goes back to
\* absent (only shutdown clears it); after a failed load it stays absent.
C6_Readiness == [] C6_State /\ [][C6_Step]_vars

C6_Witness == health.status = "ok" /\ health.ready /\ phase = "serving"
C6_WitnessFailed ==
    loadResult = "failed" /\ health.status = "ok" /\ ~health.ready

\* C7, as stated: when the delete at the end of a request fails, the answer
\* is still the one the try block produced (the 200 result, or the 500 of
\* the transcription failure).
C7_DeleteFailureSwallowed ==
    \A r \in Reqs :
        (Done(r) /\ req[r].removed \in {"vanished", "refused"}) =>
            req[r].resp = req[r].pending

\* C8: a request answered 503 (engine absent) or 400 (size) never had a temp
\* file and never reached the engine.
C8_RejectedLeavesNoTrace ==
    \A r \in Reqs :
        (Done(r) /\ req[r].resp.status \in {400, 503}) =>
            /\ ~req[r].created
            /\ ~req[r].exists
            /\ req[r].invoked = 0
            /\ req[r].trace = <<>>
            /\ req[r].removed = "none"

C8_Witness ==
    \E r \in Reqs :
        /\ Done(r) /\ req[r].resp.status = 400
        /\ req[r].content = req[r].upload /\ req[r].content > MaxBytes

\* C9, as stated: a request that finds no engine handle at the moment it
\* would invoke the engine is answered 503, not 500.
C9_AbsentAtInvokeGives503 ==
    \A r \in Reqs :
        (Done(r) /\ req[r].absentAtInvoke) => req[r].resp.status = 503

Core(r) == SelectSeq(req[r].trace, LAMBDA e : e # "deleted")
\* C10: the steps of a validated request happen in the order written,
\* stamped, invoked, drained, duration, deleted; the temp file is on disk
\* from the engine call until the drain is over; the duration is computed,
\* and the 200 produced, only after the generator has reached its end.
C10_StepOrder ==
    \A r \in Reqs :
        LET t == req[r].trace IN
        /\ Core(r) = SubSeq(Order, 1, Len(Core(r)))
        /\ \A i \in DOMAIN t : t[i] = "deleted" => i = Len(t)
        /\ ("invoked" \in InRange(t) /\ req[r].pc \in {"drain", "duration", "return", "except", "finally"})
              => req[r].exists
        /\ "drained" \in InRange(t) => (req[r].exhausted /\ req[r].segments = req[r].yielded)
        /\ "duration" \in InRange(t) => req[r].exhausted
        /\ (req[r].pending.status = 200 \/ req[r].resp.status = 200) =>
              (req[r].exhausted /\ "duration" \in InRange(t))
        /\ (Done(r) /\ req[r].resp.status = 200) => t = Order

C10_Witness ==
    \E r \in Reqs :
        /\ Done(r) /\ req[r].resp.status = 200 /\ req[r].trace = Order
        /\ Len(req[r].yielded) = MaxSegs
====
